---- MODULE Spec2Model ----
(***************************************************************************)
(* Model of class Converter (src/main.cpp): a background worker thread     *)
(* reads bytes from a source, converts each to a string and writes it to   *)
(* a sink, then sleeps on a condition variable.  The owning context calls  *)
(* start() and stop().                                                     *)
(*                                                                         *)
(* Bytes on the wire are 0..255.  A char holding one is signed (SChar).    *)
(* Strings are sequences of character codes 0..255.                        *)
(* running_ is read and written as one indivisible access; its declaration *)
(* is not part of the source text, the accesses at lines 75-110 are.       *)
(***************************************************************************)
EXTENDS Integers, Sequences, FiniteSets, TLC

\* ---------------------------------------------------------------- bounds
\* Number of successful source reads over a whole run.
MaxReads == 3
\* Number of thread identities available to std::thread.
MaxWorkers == 2

Workers == 1..MaxWorkers

\* Bytes the source may deliver: one per kind, plus out-of-range letter.
\* 5 = 0b00000101, 69 = 0b01000101, 129 = 0b10000001, 191 = 0b10111111,
\* 255 = 0b11111111.
Bytes == {5, 69, 129, 191, 255}

VARIABLES
    running_,    \* Converter::running_
    thread_,     \* Converter::thread_ : 0 = not joinable, w = joinable, owns worker w
    mutex,       \* Converter::mutex   : 0 = free, w = held by worker w
    wpc,         \* position of each worker thread inside run()
    byte,        \* run()'s local `char byte` of each worker (signed value)
    str,         \* run()'s local `std::string str` of each worker
    cpc,         \* position of the owning context: idle, inside stop(), inside or after ~Converter()
    reads,       \* bytes delivered so far by source_.read, in order (0..255)
    sink,        \* strings passed so far to sink_.write, in order
    eos,         \* "no" | "seen" (a read reported end-of-stream) | "stopped" (stop() called since)
    terminated,  \* std::terminate was called (a joinable std::thread assigned to or destroyed)
    wrote,       \* number of sink_.write calls made by each worker thread since it was created
    lastOp       \* the step most recently executed

vars == <<running_, thread_, mutex, wpc, byte, str, cpc, reads, sink, eos,
          terminated, wrote, lastOp>>

\* State of the Converter object and its threads, without the step label.
conv == <<running_, thread_, mutex, wpc, byte, str, cpc, reads, sink, terminated>>

\* ------------------------------------------------------------ byte codec
\* An 8-bit pattern held in a (signed) char.
SChar(b) == IF b >= 128 THEN b - 256 ELSE b

\* static_cast<int8_t> taken as a sign extension of the 6 data bits
Int8_SignExtend6(x) == LET m == x % 64 IN IF m >= 32 THEN m - 64 ELSE m

\* static_cast<int8_t>(x)
Int8(x) == LET m == x % 256 IN IF m >= 128 THEN m - 256 ELSE m

\* the type taken without the mask: byte >> 6 of a negative char stays negative
Type_NoMask(c) == c \div 64

\* the type taken with mask 0x01 instead of 0x03
Type_Mask1(c) == (c \div 64) % 2

\* const int type = ((byte >> 6) & 0x03);   (arithmetic shift of a promoted char)
Type(c) == (c \div 64) % 4

\* the data taken with mask 0x1f instead of 0x3f
Data_Mask5(c) == c % 32

\* const int data = (byte & 0x3f);
Data(c) == c % 64

RECURSIVE Digits(_)
Digits(n) == IF n < 10 THEN <<48 + n>> ELSE Digits(n \div 10) \o <<48 + (n % 10)>>

\* std::to_string(int): decimal text, '-' (45) first for a negative value
to_string(n) == IF n < 0 THEN <<45>> \o Digits(0 - n) ELSE Digits(n)

\* the letter wrapped into 'a'..'z'
Convert_LetterWrap(c) ==
    CASE Type(c) = 0 -> to_string(Data(c))
      [] Type(c) = 1 -> to_string(Int8(Data(c)))
      [] Type(c) = 2 -> <<97 + (Data(c) % 26)>>
      [] OTHER       -> <<>>

\* The switch of run(): the string built for a char of type 0, 1 or 2.
Convert(c) ==
    CASE Type(c) = 0 -> to_string(Data(c))
      [] Type(c) = 1 -> to_string(Int8(Data(c)))
      [] Type(c) = 2 -> <<(97 + Data(c)) % 256>>
      [] OTHER       -> <<>>

\* ------------------------------------------------------------------ init
Init ==
    /\ running_ = FALSE
    /\ thread_ = 0
    /\ mutex = 0
    /\ wpc = [w \in Workers |-> "none"]
    /\ byte = [w \in Workers |-> 0]
    /\ str = [w \in Workers |-> <<>>]
    /\ cpc = "idle"
    /\ reads = <<>>
    /\ sink = <<>>
    /\ eos = "no"
    /\ terminated = FALSE
    /\ wrote = [w \in Workers |-> 0]
    /\ lastOp = "init"

\* A worker thread exists and has not left run().
Alive(w) == wpc[w] \notin {"none", "done"}

\* The identity given to a newly created thread.
FreeId == CHOOSE w \in Workers : wpc[w] = "none" /\ \A v \in Workers : wpc[v] = "none" => w <= v

\* ----------------------------------------------------------------- start
\* start() without its `if (running_) return;`
Start_NoGuard ==
    /\ ~terminated
    /\ cpc = "idle"
    /\ lastOp' = "start"
    /\ running_' = TRUE
    /\ IF thread_ # 0
       THEN /\ terminated' = TRUE
            /\ UNCHANGED <<thread_, wpc, eos, wrote>>
       ELSE /\ \E w \in Workers : wpc[w] = "none"
            /\ thread_' = FreeId
            /\ wpc' = [wpc EXCEPT ![FreeId] = "test"]
            /\ wrote' = [wrote EXCEPT ![FreeId] = 0]
            /\ eos' = "no"
            /\ UNCHANGED terminated
    /\ UNCHANGED <<mutex, byte, str, cpc, reads, sink>>

\* start() creating a detached thread instead of assigning it to thread_
Start_Detached ==
    /\ ~terminated
    /\ cpc = "idle"
    /\ lastOp' = "start"
    /\ IF running_
       THEN UNCHANGED <<conv, eos, wrote>>
       ELSE /\ running_' = TRUE
            /\ \E w \in Workers : wpc[w] = "none"
            /\ wpc' = [wpc EXCEPT ![FreeId] = "test"]
            /\ wrote' = [wrote EXCEPT ![FreeId] = 0]
            /\ eos' = "no"
            /\ UNCHANGED <<thread_, terminated, mutex, byte, str, cpc, reads, sink>>

Start ==
    /\ ~terminated
    /\ cpc = "idle"
    /\ lastOp' = "start"
    /\ IF running_
       THEN UNCHANGED <<conv, eos, wrote>>
       ELSE /\ running_' = TRUE
            /\ IF thread_ # 0
               THEN /\ terminated' = TRUE
                    /\ UNCHANGED <<thread_, wpc, eos, wrote>>
               ELSE /\ \E w \in Workers : wpc[w] = "none"
                    /\ thread_' = FreeId
                    /\ wpc' = [wpc EXCEPT ![FreeId] = "test"]
                    /\ wrote' = [wrote EXCEPT ![FreeId] = 0]
                    /\ eos' = "no"
                    /\ UNCHANGED terminated
            /\ UNCHANGED <<mutex, byte, str, cpc, reads, sink>>

\* ------------------------------------------------------------------ stop
\* stop() without its `if (!running_) return;`
StopBegin_NoGuard ==
    /\ ~terminated
    /\ cpc = "idle"
    /\ lastOp' = "stop"
    /\ running_' = FALSE
    /\ cpc' = "notify"
    /\ eos' = IF eos = "seen" THEN "stopped" ELSE eos
    /\ UNCHANGED <<thread_, mutex, wpc, byte, str, reads, sink, terminated, wrote>>

\* stop() going on to notify_all() without `running_ = false;`
StopBegin_NoClear ==
    /\ ~terminated
    /\ cpc = "idle"
    /\ lastOp' = "stop"
    /\ IF ~running_
       THEN UNCHANGED <<conv, eos, wrote>>
       ELSE /\ cpc' = "notify"
            /\ eos' = IF eos = "seen" THEN "stopped" ELSE eos
            /\ UNCHANGED <<running_, thread_, mutex, wpc, byte, str, reads, sink, terminated, wrote>>

\* if (!running_) return;  running_ = false;
StopBegin ==
    /\ ~terminated
    /\ cpc = "idle"
    /\ lastOp' = "stop"
    /\ IF ~running_
       THEN UNCHANGED <<conv, eos, wrote>>
       ELSE /\ running_' = FALSE
            /\ cpc' = "notify"
            /\ eos' = IF eos = "seen" THEN "stopped" ELSE eos
            /\ UNCHANGED <<thread_, mutex, wpc, byte, str, reads, sink, terminated, wrote>>

\* cv_.notify_all();
StopNotify ==
    /\ ~terminated
    /\ cpc \in {"notify", "d_notify"}
    /\ lastOp' = "notify"
    /\ wpc' = [w \in Workers |-> IF wpc[w] = "wait" THEN "woken" ELSE wpc[w]]
    /\ cpc' = IF cpc = "notify" THEN "join" ELSE "d_join"
    /\ UNCHANGED <<running_, thread_, mutex, byte, str, reads, sink, eos, terminated, wrote>>

\* stop() letting go of the thread (detach) instead of waiting for it
StopJoin_NoWait ==
    /\ ~terminated
    /\ cpc \in {"join", "d_join"}
    /\ lastOp' = "join"
    /\ thread_' = 0
    /\ cpc' = IF cpc = "join" THEN "idle" ELSE "d_return"
    /\ UNCHANGED <<running_, wpc, mutex, byte, str, reads, sink, eos, terminated, wrote>>

\* stop() returning after notify_all() without joining the thread
StopJoin_Skipped ==
    /\ ~terminated
    /\ cpc \in {"join", "d_join"}
    /\ lastOp' = "join"
    /\ cpc' = IF cpc = "join" THEN "idle" ELSE "d_return"
    /\ UNCHANGED <<running_, thread_, wpc, mutex, byte, str, reads, sink, eos, terminated, wrote>>

\* if (thread_.joinable()) thread_.join();   then stop() returns, to its
\* caller or into the destructor that called it
StopJoin ==
    /\ ~terminated
    /\ cpc \in {"join", "d_join"}
    /\ lastOp' = "join"
    /\ IF thread_ # 0
       THEN /\ wpc[thread_] = "done"
            /\ wpc' = [wpc EXCEPT ![thread_] = "none"]
            /\ thread_' = 0
       ELSE UNCHANGED <<wpc, thread_>>
    /\ cpc' = IF cpc = "join" THEN "idle" ELSE "d_return"
    /\ UNCHANGED <<running_, mutex, byte, str, reads, sink, eos, terminated, wrote>>

\* ------------------------------------------------------------ ~Converter
\* ~Converter() { stop(); }   the first lines of stop(), entered from the destructor
DtorBegin ==
    /\ ~terminated
    /\ cpc = "idle"
    /\ lastOp' = "dtor"
    /\ IF ~running_
       THEN /\ cpc' = "d_return"
            /\ UNCHANGED <<running_, eos>>
       ELSE /\ running_' = FALSE
            /\ cpc' = "d_notify"
            /\ eos' = IF eos = "seen" THEN "stopped" ELSE eos
    /\ UNCHANGED <<thread_, mutex, wpc, byte, str, reads, sink, terminated, wrote>>

\* stop() has returned: the members are destroyed; destroying a joinable
\* std::thread calls std::terminate
DtorEnd ==
    /\ ~terminated
    /\ cpc = "d_return"
    /\ lastOp' = "destroyed"
    /\ IF thread_ # 0
       THEN /\ terminated' = TRUE
            /\ UNCHANGED cpc
       ELSE /\ cpc' = "destroyed"
            /\ UNCHANGED terminated
    /\ UNCHANGED <<running_, thread_, mutex, wpc, byte, str, reads, sink, eos, wrote>>

\* ------------------------------------------------------------------- run
\* while (running_)
WTest(w) ==
    /\ ~terminated
    /\ wpc[w] = "test"
    /\ lastOp' = "test"
    /\ wpc' = [wpc EXCEPT ![w] = IF running_ THEN "lock" ELSE "done"]
    /\ UNCHANGED <<running_, thread_, mutex, byte, str, cpc, reads, sink, eos, terminated, wrote>>

\* std::unique_lock<std::mutex> lock(mutex);
WLock(w) ==
    /\ ~terminated
    /\ wpc[w] = "lock"
    /\ mutex = 0
    /\ lastOp' = "lock"
    /\ mutex' = w
    /\ wpc' = [wpc EXCEPT ![w] = "read"]
    /\ UNCHANGED <<running_, thread_, byte, str, cpc, reads, sink, eos, terminated, wrote>>

\* the result of source_.read ignored: the iteration goes on to the switch
ReadEos_Ignored(w) ==
    /\ lastOp' = "eos"
    /\ eos' = "seen"
    /\ str' = [str EXCEPT ![w] = Convert(byte[w])]
    /\ wpc' = [wpc EXCEPT ![w] = "write"]
    /\ UNCHANGED <<running_, thread_, mutex, byte, cpc, reads, sink, terminated, wrote>>

\* `continue` instead of `break` when the read fails
ReadEos_Continue(w) ==
    /\ lastOp' = "eos"
    /\ eos' = "seen"
    /\ wpc' = [wpc EXCEPT ![w] = "test"]
    /\ mutex' = 0
    /\ UNCHANGED <<running_, thread_, byte, str, cpc, reads, sink, terminated, wrote>>

\* the worker clearing running_ itself before it breaks out of the loop
ReadEos_ClearsRunning(w) ==
    /\ lastOp' = "eos"
    /\ eos' = "seen"
    /\ running_' = FALSE
    /\ wpc' = [wpc EXCEPT ![w] = "done"]
    /\ mutex' = 0
    /\ UNCHANGED <<thread_, byte, str, cpc, reads, sink, terminated, wrote>>

\* if (!source_.read(byte)) break;      the read fails
ReadEos(w) ==
    /\ lastOp' = "eos"
    /\ eos' = "seen"
    /\ wpc' = [wpc EXCEPT ![w] = "done"]
    /\ mutex' = 0
    /\ UNCHANGED <<running_, thread_, byte, str, cpc, reads, sink, terminated, wrote>>

\* `break` instead of `continue` in the default case: the empty str is written
ReadByte_DefaultBreak(w, b) ==
    /\ Len(reads) < MaxReads
    /\ lastOp' = "read"
    /\ reads' = Append(reads, b)
    /\ byte' = [byte EXCEPT ![w] = SChar(b)]
    /\ str' = [str EXCEPT ![w] = Convert(SChar(b))]
    /\ wpc' = [wpc EXCEPT ![w] = "write"]
    /\ UNCHANGED <<running_, thread_, mutex, cpc, sink, eos, terminated, wrote>>

\* source_.read(byte) delivers b; type and data are taken from it and the
\* switch either builds str or, for an unsupported type, continues the loop.
ReadByte(w, b) ==
    /\ Len(reads) < MaxReads
    /\ lastOp' = "read"
    /\ reads' = Append(reads, b)
    /\ IF Type(SChar(b)) \in {0, 1, 2}
       THEN /\ byte' = [byte EXCEPT ![w] = SChar(b)]
            /\ str' = [str EXCEPT ![w] = Convert(SChar(b))]
            /\ wpc' = [wpc EXCEPT ![w] = "write"]
            /\ UNCHANGED mutex
       ELSE /\ wpc' = [wpc EXCEPT ![w] = "test"]
            /\ mutex' = 0
            /\ UNCHANGED <<byte, str>>
    /\ UNCHANGED <<running_, thread_, cpc, sink, eos, terminated, wrote>>

WRead(w) ==
    /\ ~terminated
    /\ wpc[w] = "read"
    /\ \/ ReadEos(w)
       \/ \E b \in Bytes : ReadByte(w, b)

\* `if (!running_) break;` put before sink_.write(str)
WWrite_CheckCancel(w) ==
    /\ ~terminated
    /\ wpc[w] = "write"
    /\ lastOp' = "write"
    /\ mutex' = 0
    /\ IF running_
       THEN /\ sink' = Append(sink, str[w])
            /\ wrote' = [wrote EXCEPT ![w] = @ + 1]
            /\ wpc' = [wpc EXCEPT ![w] = "wait"]
       ELSE /\ wpc' = [wpc EXCEPT ![w] = "done"]
            /\ UNCHANGED <<sink, wrote>>
    /\ UNCHANGED <<running_, thread_, byte, str, cpc, reads, eos, terminated>>

\* sink_.write(str) with no cv_.wait after it: the iteration ends
WWrite_NoWait(w) ==
    /\ ~terminated
    /\ wpc[w] = "write"
    /\ lastOp' = "write"
    /\ sink' = Append(sink, str[w])
    /\ wrote' = [wrote EXCEPT ![w] = @ + 1]
    /\ mutex' = 0
    /\ byte' = [byte EXCEPT ![w] = 0]
    /\ str' = [str EXCEPT ![w] = <<>>]
    /\ wpc' = [wpc EXCEPT ![w] = "test"]
    /\ UNCHANGED <<running_, thread_, cpc, reads, eos, terminated>>

\* sink_.write(str);  cv_.wait(lock) releases the mutex and blocks
WWrite(w) ==
    /\ ~terminated
    /\ wpc[w] = "write"
    /\ lastOp' = "write"
    /\ sink' = Append(sink, str[w])
    /\ wrote' = [wrote EXCEPT ![w] = @ + 1]
    /\ mutex' = 0
    /\ wpc' = [wpc EXCEPT ![w] = "wait"]
    /\ UNCHANGED <<running_, thread_, byte, str, cpc, reads, eos, terminated>>

\* cv_.wait(lock) may return without a notification
SpuriousWake(w) ==
    /\ ~terminated
    /\ wpc[w] = "wait"
    /\ lastOp' = "spurious"
    /\ wpc' = [wpc EXCEPT ![w] = "woken"]
    /\ UNCHANGED <<running_, thread_, mutex, byte, str, cpc, reads, sink, eos, terminated, wrote>>

\* cv_.wait(lock) returns: the mutex is re-acquired, the iteration ends
\* (byte, str and lock go out of scope) and the loop goes back to its test.
WWake(w) ==
    /\ ~terminated
    /\ wpc[w] = "woken"
    /\ mutex = 0
    /\ lastOp' = "wake"
    /\ byte' = [byte EXCEPT ![w] = 0]
    /\ str' = [str EXCEPT ![w] = <<>>]
    /\ wpc' = [wpc EXCEPT ![w] = "test"]
    /\ UNCHANGED <<running_, thread_, mutex, cpc, reads, sink, eos, terminated, wrote>>

Worker(w) ==
    \/ WTest(w)
    \/ WLock(w)
    \/ WRead(w)
    \/ WWrite(w)
    \/ WWake(w)

Next ==
    \/ Start
    \/ StopBegin
    \/ StopNotify
    \/ StopJoin
    \/ DtorBegin
    \/ DtorEnd
    \/ \E w \in Workers : Worker(w)
    \/ \E w \in Workers : SpuriousWake(w)

Spec == Init /\ [][Next]_vars

\* Every thread that can take a step eventually takes one; a spurious
\* wake-up and a new call by the owning context are never guaranteed.
FairSpec ==
    /\ Init
    /\ [][Next]_vars
    /\ WF_vars(StopNotify)
    /\ WF_vars(StopJoin)
    /\ WF_vars(DtorEnd)
    /\ \A w \in Workers : WF_vars(Worker(w))

\* cv_.wait(lock) taken to return only after notify_all()
NoSpuriousNext ==
    \/ Start
    \/ StopBegin
    \/ StopNotify
    \/ StopJoin
    \/ DtorBegin
    \/ DtorEnd
    \/ \E w \in Workers : Worker(w)

NoSpuriousSpec == Init /\ [][NoSpuriousNext]_vars

\* ------------------------------------------------ one byte in the source
\* Every 8-bit pattern.
AllBytes == 0..255

\* source_.read for a source that holds exactly one byte, any of AllBytes,
\* and reports end-of-stream after it.
Read1(w) ==
    /\ ~terminated
    /\ wpc[w] = "read"
    /\ IF reads = <<>>
       THEN \E b \in AllBytes : ReadByte(w, b)
       ELSE ReadEos(w)

Worker1(w) ==
    \/ WTest(w)
    \/ WLock(w)
    \/ Read1(w)
    \/ WWrite(w)
    \/ WWake(w)

\* The owning context only calls start().
OneByteNext ==
    \/ Start
    \/ \E w \in Workers : Worker1(w)
    \/ \E w \in Workers : SpuriousWake(w)

OneByteSpec == Init /\ [][OneByteNext]_vars

OneByteFairSpec ==
    /\ Init
    /\ [][OneByteNext]_vars
    /\ \A w \in Workers : WF_vars(Worker1(w))

\* =================================================================
\* Properties
\* =================================================================

\* C1: when a stop() call made while the Converter is running returns, no
\* worker thread is still inside run() (none can read the source or write
\* the sink any more) and running_ is false.
StopReturnsAfterWorkerExit ==
    [][(cpc = "join" /\ cpc' = "idle") =>
         (/\ ~running_'
          /\ \A w \in Workers : wpc'[w] \in {"none", "done"}
          /\ \A w \in Workers : wpc[w] \in {"none", "done"})]_vars

\* stop() has returned after stopping a worker that had read and written.
C1Witness == lastOp = "join" /\ cpc = "idle" /\ ~running_ /\ Len(sink) > 0

\* C2: every stop() call that has cleared the flag eventually returns.
StopEventuallyReturns == (cpc \in {"notify", "join"}) ~> (cpc = "idle")

\* C3: start() called while running_ is set changes nothing, and after any
\* start() exactly one worker thread exists, owned by thread_.
StartIdempotent ==
    [][(lastOp' = "start") =>
         (/\ running_ => UNCHANGED <<conv, eos>>
          /\ running_'
          /\ ~terminated'
          /\ thread_' # 0
          /\ Cardinality({w \in Workers : wpc'[w] # "none"}) = 1)]_vars

\* start() was called while the worker of an earlier start() was asleep.
C3Witness == lastOp = "start" /\ running_ /\ \E w \in Workers : wpc[w] = "wait"

\* C4: stop() called while running_ is clear returns at once: it neither
\* notifies nor joins, and changes nothing.
StopIdempotent ==
    [][(lastOp' = "stop" /\ ~running_) => UNCHANGED <<conv, eos>>]_vars

\* stop() was called on a Converter already stopped after it had run.
C4Witness ==
    /\ lastOp = "stop" /\ cpc = "idle" /\ ~running_
    /\ Len(reads) > 0 /\ \A w \in Workers : wpc[w] = "none"

\* C5: at most one worker thread is inside run() at any time, and a thread
\* is created only when no earlier one exists (alive, or exited and unjoined).
AtMostOneWorker ==
    /\ [](Cardinality({w \in Workers : Alive(w)}) <= 1)
    /\ [][\A w \in Workers :
            (wpc[w] = "none" /\ wpc'[w] # "none") =>
                (thread_ = 0 /\ \A v \in Workers : wpc[v] = "none")]_vars

\* A worker has just been created by a start() that followed earlier reads.
C5Witness ==
    /\ lastOp = "start" /\ Len(reads) > 0 /\ eos = "no"
    /\ \E w \in Workers : wpc[w] = "test" /\ thread_ = w

\* C6: the strings written to the sink are, in order, the conversions of the
\* bytes read whose top two bits are not 11; a string still to be written is
\* the conversion of the byte read last; nothing is written twice; at most
\* one worker is between its read and its write.
SinkInSourceOrder ==
    LET emitted == SelectSeq(reads, LAMBDA b : b \div 64 # 3)
        expect  == [i \in 1..Len(emitted) |-> Convert(SChar(emitted[i]))]
        pending == {w \in Workers : wpc[w] = "write"}
    IN  /\ Cardinality({w \in Workers : wpc[w] \in {"read", "write"}}) <= 1
        /\ \A w \in Workers : wpc[w] \in {"read", "write"} => mutex = w
        /\ IF pending = {}
           THEN sink = expect
           ELSE /\ Len(expect) > 0
                /\ sink = SubSeq(expect, 1, Len(expect) - 1)
                /\ \A w \in pending :
                     /\ str[w] = expect[Len(expect)]
                     /\ byte[w] = SChar(reads[Len(reads)])
                     /\ reads[Len(reads)] \div 64 # 3

\* Two strings were written around a skipped byte, after a restart or wake-up.
C6Witness ==
    /\ Len(reads) = 3 /\ Len(sink) = 2
    /\ reads[2] = 255 /\ reads[1] # reads[3]
    /\ lastOp = "write"

\* C7: a byte whose top two bits are 11 is never written and the worker does
\* not sleep on it: the read of such a byte releases the mutex and goes back
\* to the loop test; a write or an entry into the wait only follows the read
\* of a byte of another kind.
ReservedSkipped ==
    /\ [](Len(sink) <= Len(SelectSeq(reads, LAMBDA b : b \div 64 # 3)))
    /\ [][/\ (reads' # reads /\ reads'[Len(reads')] \div 64 = 3) =>
               (/\ sink' = sink
                /\ mutex' = 0
                /\ \E w \in Workers : wpc[w] = "read" /\ wpc'[w] = "test"
                /\ \A w \in Workers : wpc'[w] \notin {"write", "wait", "woken"})
          /\ \A w \in Workers :
               ((wpc'[w] = "wait" /\ wpc[w] # "wait") \/ sink' # sink) =>
                   (Len(reads) > 0 /\ reads[Len(reads)] \div 64 # 3)
          /\ \A w \in Workers :
               (wpc[w] = "test" /\ running_ /\ wpc'[w] # "test") => wpc'[w] = "lock"
          /\ \A w \in Workers :
               (wpc[w] = "lock" /\ wpc'[w] # "lock") => wpc'[w] = "read"]_vars

\* After a reserved byte the worker has gone on to read the next byte.
C7Witness ==
    /\ Len(reads) = 2 /\ reads[1] = 255 /\ sink = <<>>
    /\ lastOp = "read" /\ running_

\* C8: a read that reports end-of-stream writes nothing and makes the worker
\* leave run() with the mutex released; when it is the first read ever, the
\* sink has received nothing.
EosExitsWithoutWrite ==
    /\ []((eos = "seen" /\ reads = <<>>) => (sink = <<>> /\ \A w \in Workers : ~Alive(w)))
    /\ [][(lastOp' = "eos") =>
            (/\ sink' = sink
             /\ reads' = reads
             /\ mutex' = 0
             /\ \E w \in Workers : wpc[w] = "read" /\ wpc'[w] = "done"
             /\ \A w \in Workers : wpc'[w] \in {"none", "done"})]_vars

\* The very first read reported end-of-stream.
C8Witness ==
    /\ lastOp = "eos" /\ reads = <<>> /\ sink = <<>>
    /\ \E w \in Workers : wpc[w] = "done"

\* C9 (as stated): after a read has reported end-of-stream no read is
\* attempted and no worker is created until stop() and then start() have been
\* called after it; start() alone after the worker exited changes nothing.
NoRetryUntilStopCalledAfterEos ==
    [][(eos # "no") =>
         (/\ lastOp' \notin {"read", "eos"}
          /\ reads' = reads
          /\ (eos = "seen" /\ lastOp' = "start") => UNCHANGED <<conv, eos>>)]_vars

\* C9 (amended): after a read has reported end-of-stream no read is attempted,
\* nothing is written and no worker is inside run() until a stop() call has
\* returned (one begun before or after the end-of-stream) and start() has
\* then been called; start() called while running_ is still set changes
\* nothing.
NoRetryAfterEos ==
    [][(eos # "no") =>
         (/\ lastOp' \notin {"read", "eos"}
          /\ reads' = reads
          /\ sink' = sink
          /\ (running_ /\ lastOp' = "start") => UNCHANGED <<conv, eos>>
          /\ (eos' = "no") =>
                (lastOp' = "start" /\ ~running_ /\ cpc = "idle" /\ thread_ = 0)
          /\ (eos' # "no") => \A w \in Workers : wpc'[w] \in {"none", "done"})]_vars

\* start() was called alone after the worker exited at end-of-stream.
C9Witness ==
    /\ eos = "seen" /\ lastOp = "start" /\ running_
    /\ \E w \in Workers : wpc[w] = "done" /\ thread_ = w

\* C10: stop() called after the worker exited at end-of-stream does not
\* block in join, and returns with running_ false and no joinable thread; a
\* start() after that creates a new worker.
StopSafeAfterEos ==
    /\ []((eos = "stopped" /\ cpc = "join") => (thread_ # 0 /\ wpc[thread_] = "done"))
    /\ [][/\ (eos # "no" /\ lastOp' \in {"stop", "join"} /\ cpc' = "idle") =>
               (/\ ~running_'
                /\ thread_' = 0
                /\ \A w \in Workers : wpc'[w] = "none")
          /\ (eos = "stopped" /\ lastOp' = "start") =>
               (/\ running_' /\ ~terminated'
                /\ \E w \in Workers : wpc'[w] = "test" /\ thread_' = w)]_vars

\* stop() has returned after joining a worker that had exited at end-of-stream.
C10Witness ==
    /\ eos = "stopped" /\ lastOp = "join" /\ cpc = "idle"
    /\ ~running_ /\ thread_ = 0

\* C11: between calls of the owning context, running_ false means that no
\* worker thread exists and thread_ is not joinable; so the destructor, which
\* calls stop(), never gets past stop() while a worker is alive or unjoined,
\* and std::terminate is never called.
DestroyedAfterJoin ==
    /\ ~terminated
    /\ (cpc = "idle" /\ ~running_) =>
           (thread_ = 0 /\ \A w \in Workers : wpc[w] = "none")
    /\ (cpc \in {"d_return", "destroyed"}) =>
           (~running_ /\ thread_ = 0 /\ \A w \in Workers : wpc[w] = "none")

\* A Converter whose worker had written was destroyed while it was running.
C11Witness ==
    /\ cpc = "destroyed" /\ lastOp = "destroyed"
    /\ eos = "no" /\ Len(sink) > 0 /\ \E w \in Workers : wrote[w] > 0

\* C12: a byte whose top two bits are 00 is written as the decimal text of
\* its low six bits (one or two digits); 0b00000101 gives "5".
UnsignedRendering ==
    (Len(reads) = 1 /\ reads[1] \div 64 = 0) =>
        LET n   == reads[1]
            dec == IF n < 10 THEN <<48 + n>> ELSE <<48 + (n \div 10), 48 + (n % 10)>>
        IN  \/ sink = <<>> /\ \E w \in Workers : wpc[w] = "write" /\ str[w] = dec
            \/ sink = <<dec>>

\* The byte 0b00000101 was written as "5".
C12Witness == reads = <<5>> /\ sink = << <<53>> >>

\* C13: a byte whose top two bits are 10 and whose low six bits p are at
\* most 25 is written as the one letter 'a' + p, although the char holding
\* it is negative.
LetterRendering ==
    (Len(reads) = 1 /\ reads[1] \div 64 = 2 /\ reads[1] - 128 <= 25) =>
        LET p      == reads[1] - 128
            letter == <<97 + p>>
        IN  /\ 97 + p >= 97 /\ 97 + p <= 122
            /\ \/ sink = <<>> /\ \E w \in Workers :
                                   wpc[w] = "write" /\ str[w] = letter /\ byte[w] < 0
               \/ sink = <<letter>>

\* The byte 0b10011001 (payload 25) was written as "z".
C13Witness == reads = <<153>> /\ sink = << <<122>> >>

\* C14: a byte whose top two bits are 01 is written as the decimal text of
\* its low six bits, the same text as for type 00, never with a minus sign.
SignedRendering ==
    (Len(reads) = 1 /\ reads[1] \div 64 = 1) =>
        LET n   == reads[1] - 64
            dec == IF n < 10 THEN <<48 + n>> ELSE <<48 + (n \div 10), 48 + (n % 10)>>
        IN  /\ dec[1] # 45
            /\ \/ sink = <<>> /\ \E w \in Workers : wpc[w] = "write" /\ str[w] = dec
               \/ sink = <<dec>>

\* The byte 0b01111111 (payload 63) was written as "63".
C14Witness == reads = <<127>> /\ sink = << <<54, 51>> >>

\* C15: with the owning context calling only start() and one byte of type
\* 00, 01 or 10 in the source, the sink eventually receives one write and the
\* worker is then asleep in the wait; every write puts the writing worker to
\* sleep, and the sink never receives a second write.
OneWriteThenPause ==
    /\ [](Len(sink) <= 1)
    /\ [][(sink' # sink) =>
            \E w \in Workers : wpc[w] = "write" /\ wpc'[w] = "wait" /\ mutex' = 0]_vars
    /\ (running_ /\ reads = <<>>) ~>
          (\/ Len(reads) = 1 /\ reads[1] \div 64 = 3
           \/ Len(sink) = 1 /\ \E w \in Workers : wpc[w] = "wait")

\* The one byte of the source was written and the worker went to sleep.
C15Witness ==
    /\ lastOp = "write" /\ Len(reads) = 1 /\ reads[1] \div 64 = 1
    /\ Len(sink) = 1 /\ \E w \in Workers : wpc[w] = "wait" /\ wrote[w] = 1

\* C16: a worker asleep in the wait leaves it only when notify_all() is
\* called, so no byte is read between a write and the next signal.
SleepsUntilSignalled ==
    [][\A w \in Workers :
          (wpc[w] = "wait" /\ wpc'[w] # "wait") => lastOp' = "notify"]_vars

\* C17: a worker that has read a byte of type 00, 01 or 10 leaves that
\* point only by writing its string and going to sleep, whatever running_
\* is; so whenever no worker is between read and write, the sink has one
\* string per such byte read.
CancellationKeepsIteration ==
    /\ []((\A w \in Workers : wpc[w] # "write") =>
             Len(sink) = Len(SelectSeq(reads, LAMBDA b : b \div 64 # 3)))
    /\ []((\E w \in Workers : wpc[w] = "write") =>
             Len(sink) + 1 = Len(SelectSeq(reads, LAMBDA b : b \div 64 # 3)))
    /\ [][\A w \in Workers :
            (wpc[w] = "write" /\ wpc'[w] # "write") =>
                (/\ Len(sink') = Len(sink) + 1
                 /\ wpc'[w] = "wait")]_vars

\* stop() was called between a read and its write, and the write happened.
C17Witness ==
    /\ lastOp = "write" /\ ~running_ /\ cpc \in {"notify", "join"}
    /\ Len(sink) = Len(reads) /\ Len(sink) > 0
    /\ \E w \in Workers : wpc[w] = "wait"

\* C18: a byte whose top two bits are 10 and whose low six bits p are 26 or
\* more is written as one string of the one character 'a' + p (123..160),
\* and the write puts the worker to sleep.
LetterBeyondZ ==
    (Len(reads) = 1 /\ reads[1] \div 64 = 2 /\ reads[1] - 128 >= 26) =>
        LET p == reads[1] - 128
        IN  /\ 97 + p > 122 /\ 97 + p < 256
            /\ \/ sink = <<>> /\ \E w \in Workers : wpc[w] = "write" /\ str[w] = <<97 + p>>
               \/ sink = << <<97 + p>> >>
            /\ (lastOp = "write") => (mutex = 0 /\ \E w \in Workers : wpc[w] = "wait")

\* The byte 0b10111111 (payload 63) was written as the character 160.
C18Witness ==
    /\ reads = <<191>> /\ sink = << <<160>> >>
    /\ lastOp = "write" /\ \E w \in Workers : wpc[w] = "wait"

\* C19: without spurious wake-ups a sleeping worker is woken only by the
\* notify_all() of stop(), finds running_ false and exits; so a worker
\* thread writes at most once, after reading any number of bytes of type 11
\* and at most one byte of another type.
OneWritePerLifetime ==
    /\ [](\A w \in Workers : wrote[w] <= 1)
    /\ [](\A w \in Workers : wpc[w] = "write" => wrote[w] = 0)
    /\ [](\A w \in Workers : wpc[w] = "woken" => ~running_)
    /\ [][\A w \in Workers :
            /\ (wpc[w] = "wait" /\ wpc'[w] # "wait") => (lastOp' = "notify" /\ ~running_)
            /\ (wpc[w] = "test" /\ wrote[w] > 0 /\ wpc'[w] # "test") => wpc'[w] = "done"]_vars

\* A worker read a byte of type 11, then wrote once, was woken and exited.
C19Witness ==
    /\ Len(reads) = 2 /\ reads[1] = 255 /\ Len(sink) = 1
    /\ lastOp = "test" /\ \E w \in Workers : wpc[w] = "done" /\ wrote[w] = 1
====
